---- MODULE Spec2Model ----
(***************************************************************************)
(* Model of the multi-category parallel review pipeline:                   *)
(*   api_client.run_proofread_parallel  (dispatcher, worker pool, deadline) *)
(*   api_client._run_single_check       (one category reviewer)            *)
(*   report_generator.merge_results     (parser and merger)                *)
(***************************************************************************)
EXTENDS Integers, Sequences, FiniteSets, TLC

\* ------------------------------------------------------------------------
\* Bounds of the model
\* ------------------------------------------------------------------------

\* number of check_items keys that are not keys of CHECK_CONFIGS
NumExtraKeys == 1

\* ------------------------------------------------------------------------
\* Program constants
\* ------------------------------------------------------------------------

max_workers == 4

UNKNOWN_KEY == 99

\* category_order of run_proofread_parallel and of merge_results
category_order == <<"atm", "logo", "wording", "format">>

\* keys of CHECK_CONFIGS
ConfigKeys == {"atm", "logo", "wording", "format"}

\* CHECK_CONFIGS[c]["name"]
ConfigName(c) ==
    CASE c = "atm" -> "ATM image check"
      [] c = "logo" -> "logo check"
      [] c = "wording" -> "wording check"
      [] c = "format" -> "format check"

\* CHECK_CONFIGS[c]["files"] is non-empty
HasFiles(c) == c \in {"atm", "logo"}

ExtraKeyNames == <<"banner", "qrcode", "footer", "stamp">>

ExtraKeys == {ExtraKeyNames[i] : i \in 1..NumExtraKeys}

\* the order in which the keys of check_items are inserted
KeyOrders ==
    LET extras == [i \in 1..NumExtraKeys |-> ExtraKeyNames[i]]
    IN  { category_order \o extras, extras \o category_order }

\* ------------------------------------------------------------------------
\* Values
\* ------------------------------------------------------------------------

\* Optional values: None is the empty sequence, Some(x) a one-element one
None == <<>>

Some(x) == <<x>>

\* A text is a sequence of tokens; the empty string is the empty sequence.
EmptyText == <<>>

Tok(k, v) == [k |-> k, v |-> v]

NoVal == [jt |-> "none"]

Prose == Tok("prose", NoVal)

Fence == Tok("fence", NoVal)

Tag == Tok("tag", NoVal)

Ws == Tok("ws", NoVal)

Json(v) == Tok("json", v)

\* a JSON value one of whose strings holds the three backquotes of a fence
JsonWithFence(v) == Tok("jsonf", v)

\* a stretch of the text of a JSON value, cut at a fence marker inside it
Part == Tok("part", NoVal)

JObject(o) == [jt |-> "object", val |-> o]

CheckResult(category, name, result_text, success, error) ==
    [category |-> category, name |-> name, result_text |-> result_text,
     success |-> success, error |-> error]

\* the message of the timeout branch of the collection loop
TimeoutMessage == "timeout: no response for API_TIMEOUT seconds or more"

\* str(e) of the exceptions a reviewer can meet inside its try block
MissingFileMessage == "reference image not found"

ApiErrorMessage == "model call failed"

EmptyMessage == ""

\* what a reviewer's try block can raise for category c
ReviewerErrors(c) ==
    IF HasFiles(c) THEN {MissingFileMessage, ApiErrorMessage}
    ELSE {ApiErrorMessage}

\* the outcome stored in a future: a returned value or a raised exception
Returned(v) == [kind |-> "returned", value |-> v, exc |-> "none", msg |-> ""]

Raised(exc, msg) ==
    [kind |-> "raised", value |-> CheckResult("", "", EmptyText, FALSE, None),
     exc |-> exc, msg |-> msg]

NotDone == [kind |-> "pending", value |-> CheckResult("", "", EmptyText, FALSE, None),
            exc |-> "none", msg |-> ""]

\* ------------------------------------------------------------------------
\* Sorting by canonical category order (list.sort / sorted are stable)
\* ------------------------------------------------------------------------

\* category_order.index(c) if c in category_order else 99   (0-based)
SortKey(c) ==
    IF \E i \in 1..Len(category_order) : category_order[i] = c
    THEN (CHOOSE i \in 1..Len(category_order) : category_order[i] = c) - 1
    ELSE UNKNOWN_KEY

RECURSIVE InsertStable(_, _)
\* insert r after every element whose key is <= its own
InsertStable(sorted, r) ==
    IF sorted = <<>> THEN <<r>>
    ELSE IF SortKey(Head(sorted).category) <= SortKey(r.category)
         THEN <<Head(sorted)>> \o InsertStable(Tail(sorted), r)
         ELSE <<r>> \o sorted

\* a dispatcher that returns the results in completion order
SortOmitted(rs) == rs

RECURSIVE SortByCategory(_)
SortByCategory(rs) ==
    IF rs = <<>> THEN <<>>
    ELSE InsertStable(SortByCategory(SubSeq(rs, 1, Len(rs) - 1)), rs[Len(rs)])

\* ------------------------------------------------------------------------
\* Responses of the external model used in the dispatch runs
\* ------------------------------------------------------------------------

ResponseTexts ==
    { <<Json(JObject([issues |-> <<JObject([severity |-> "Fail"])>>, has_target |-> TRUE]))>> }

\* ------------------------------------------------------------------------
\* _run_single_check
\* ------------------------------------------------------------------------

\* what happens inside the try block of a reviewer: the model answers with a
\* text, or an exception with message msg is raised
Response(text) == [kind |-> "response", text |-> text, msg |-> ""]

Exception(msg) == [kind |-> "exception", text |-> EmptyText, msg |-> msg]

NoEvent == [kind |-> "none", text |-> EmptyText, msg |-> ""]

ReviewerEvents(c) ==
    {Response(t) : t \in ResponseTexts} \cup {Exception(m) : m \in ReviewerErrors(c)}

\* a success that also carries an (empty) error message
SingleCheckSuccessWithError(category, text) ==
    CheckResult(category, ConfigName(category), text, TRUE, Some(""))

\* the return of the try block
SingleCheckSuccess(category, text) ==
    CheckResult(category, ConfigName(category), text, TRUE, None)

\* an except block that swallows the exception and reports success
SingleCheckFailureSwallowed(category, msg) ==
    CheckResult(category, ConfigName(category), EmptyText, TRUE, None)

\* the return of the except block
SingleCheckFailure(category, msg) ==
    CheckResult(category, ConfigName(category), EmptyText, FALSE, Some(msg))

\* _run_single_check(category, ...) when the try block meets event ev
RunSingleCheck(category, ev) ==
    IF category \notin ConfigKeys
    THEN \* config = CHECK_CONFIGS[category] is outside the try block
         Raised("KeyError", category)
    ELSE IF ev.kind = "response"
         THEN Returned(SingleCheckSuccess(category, ev.text))
         ELSE Returned(SingleCheckFailure(category, ev.msg))

\* ------------------------------------------------------------------------
\* State
\* ------------------------------------------------------------------------

VARIABLES
    check_items,   \* the caller's mapping key -> enabled
    key_order,     \* insertion order of the keys of check_items
    pc,            \* position of the calling thread in run_proofread_parallel
    submitted,     \* categories for which a future was submitted
    queue,         \* work queue of the executor (FIFO)
    running,       \* categories whose _run_single_check is in flight
    event,         \* category -> what its reviewer met in the try block
    future,        \* category -> outcome stored in its future
    yield_order,   \* futures yielded by as_completed, in that order
    results,       \* the results list of run_proofread_parallel
    exc,           \* the exception that leaves run_proofread_parallel
    late,          \* futures unfinished when the deadline passed
    mpc,           \* position of a call of merge_results
    check_results, \* the argument of merge_results
    report,        \* the ParsedReport it returns
    rendered,      \* the document generate_markdown_report returns
    app_pc,        \* position of the run-button handler of app.py
    env_key,       \* os.getenv("GEMINI_API_KEY")
    secrets,       \* the Streamlit secrets store
    genai_api_key, \* the key given to genai.configure
    ui             \* the messages the handler has put on the page

dispatch_vars == <<check_items, key_order, pc, submitted, queue, running, event,
                   future, yield_order, results, exc, late>>

merge_vars == <<mpc, check_results, report, rendered>>

app_vars == <<app_pc, env_key, secrets, genai_api_key, ui>>

vars == <<dispatch_vars, merge_vars, app_vars>>

AllKeys == ConfigKeys \cup ExtraKeys

Done(c) == future[c].kind # "pending"

SeqToSet(s) == {s[i] : i \in 1..Len(s)}

yielded == SeqToSet(yield_order)

\* a dispatcher that ignores the enabled flag
ActiveFromAllKeys(order, items) == order

\* active_categories, in the order of the dict
RECURSIVE ActiveFrom(_, _)
ActiveFrom(order, items) ==
    IF order = <<>> THEN <<>>
    ELSE IF items[Head(order)]
         THEN <<Head(order)>> \o ActiveFrom(Tail(order), items)
         ELSE ActiveFrom(Tail(order), items)

active_categories == ActiveFrom(key_order, check_items)

NoReport == [raised |-> FALSE, summary |-> [s \in {"Fail", "Warning", "Info"} |-> 0],
             sections |-> <<>>, visual_checks |-> <<>>, raw_results |-> <<>>]

DispatchIdle ==
    /\ submitted = {}
    /\ queue = <<>>
    /\ running = {}
    /\ event = [c \in AllKeys |-> NoEvent]
    /\ future = [c \in AllKeys |-> NotDone]
    /\ yield_order = <<>>
    /\ results = <<>>
    /\ exc = "none"
    /\ late = {}

MergeIdle ==
    /\ mpc = "idle"
    /\ check_results = <<>>
    /\ report = NoReport
    /\ rendered = [header |-> <<>>, summary |-> [k |-> "summary", v |-> <<0, 0, 0>>],
                   blocks |-> <<>>, checklist |-> <<>>]

\* no run-button handler is in progress
AppIdle ==
    /\ app_pc = "idle"
    /\ env_key = None
    /\ secrets = [available |-> FALSE, value |-> None]
    /\ genai_api_key = None
    /\ ui = <<>>

Init ==
    /\ check_items \in [AllKeys -> BOOLEAN]
    /\ key_order \in KeyOrders
    /\ pc = "start"
    /\ DispatchIdle
    /\ MergeIdle
    /\ AppIdle

\* ------------------------------------------------------------------------
\* The calling thread
\* ------------------------------------------------------------------------

\* one pass of the dict comprehension: executor.submit for the next active
\* category; the workers run while the later categories are not yet submitted
Submit ==
    /\ pc = "start"
    /\ Cardinality(submitted) < Len(active_categories)
    /\ LET category == active_categories[Cardinality(submitted) + 1]
       IN  /\ submitted' = submitted \cup {category}
           /\ queue' = Append(queue, category)
    /\ UNCHANGED <<check_items, key_order, pc, running, event, future, yield_order,
                   results, exc, late>>
    /\ UNCHANGED merge_vars
    /\ UNCHANGED app_vars

\* the comprehension is over: as_completed(futures, timeout=...) starts the
\* clock of the deadline
AsCompleted ==
    /\ pc = "start"
    /\ Cardinality(submitted) = Len(active_categories)
    /\ pc' = "collecting"
    /\ UNCHANGED <<check_items, key_order, submitted, queue, running, event, future,
                   yield_order, results, exc, late>>
    /\ UNCHANGED merge_vars
    /\ UNCHANGED app_vars

\* one iteration of "for future in as_completed(...)": the body of the loop
CollectBody(category, fut) ==
    IF fut.kind = "returned"
    THEN [raised |-> FALSE, exc |-> "none", append |-> <<fut.value>>]
    ELSE IF category \notin ConfigKeys
         THEN \* CHECK_CONFIGS[category] inside the handler raises
              [raised |-> TRUE, exc |-> "KeyError", append |-> <<>>]
         ELSE IF fut.exc = "TimeoutError"
              THEN [raised |-> FALSE, exc |-> "none",
                    append |-> <<CheckResult(category, ConfigName(category), EmptyText,
                                             FALSE, Some(TimeoutMessage))>>]
              ELSE [raised |-> FALSE, exc |-> "none",
                    append |-> <<CheckResult(category, ConfigName(category), EmptyText,
                                             FALSE, Some(fut.msg))>>]

Collect(c) ==
    /\ pc = "collecting"
    /\ c \in submitted \ yielded
    /\ Done(c)
    /\ LET step == CollectBody(c, future[c])
       IN  /\ yield_order' = Append(yield_order, c)
           /\ results' = results \o step.append
           /\ pc' = IF step.raised THEN "unwinding" ELSE "collecting"
           /\ exc' = step.exc
    /\ UNCHANGED <<check_items, key_order, submitted, queue, running, event, future, late>>
    /\ UNCHANGED merge_vars
    /\ UNCHANGED app_vars

\* as_completed finds the deadline passed while futures are still to be yielded
Deadline ==
    /\ pc = "collecting"
    /\ submitted \ yielded # {}
    /\ pc' = "unwinding"
    /\ exc' = "TimeoutError"
    /\ late' = {c \in submitted : ~Done(c)}
    /\ UNCHANGED <<check_items, key_order, submitted, queue, running, event, future,
                   yield_order, results>>
    /\ UNCHANGED merge_vars
    /\ UNCHANGED app_vars

\* the executor's shutdown(wait=True) at the end of the with block has joined
\* the workers: no work item is queued or running
ShutdownComplete == queue = <<>> /\ running = {}

\* every future was yielded: leave the with block, sort, return
Return ==
    /\ pc = "collecting"
    /\ submitted \ yielded = {}
    /\ ShutdownComplete
    /\ pc' = "returned"
    /\ results' = SortByCategory(results)
    /\ UNCHANGED <<check_items, key_order, submitted, queue, running, event, future,
                   yield_order, exc, late>>
    /\ UNCHANGED merge_vars
    /\ UNCHANGED app_vars

\* an exception leaves the with block once the executor has shut down
Propagate ==
    /\ pc = "unwinding"
    /\ ShutdownComplete
    /\ pc' = "raised"
    /\ UNCHANGED <<check_items, key_order, submitted, queue, running, event, future,
                   yield_order, results, exc, late>>
    /\ UNCHANGED merge_vars
    /\ UNCHANGED app_vars

\* ------------------------------------------------------------------------
\* The worker threads of the pool
\* ------------------------------------------------------------------------

\* a pool that starts a thread for every work item
WorkerAlwaysAvailable == TRUE

\* ThreadPoolExecutor(max_workers=4): a work item starts only on one of at most
\* max_workers threads
WorkerAvailable == Cardinality(running) < max_workers

\* a worker takes the next work item
StartTask ==
    /\ queue # <<>>
    /\ WorkerAvailable
    /\ running' = running \cup {Head(queue)}
    /\ queue' = Tail(queue)
    /\ UNCHANGED <<check_items, key_order, pc, submitted, event, future, yield_order,
                   results, exc, late>>
    /\ UNCHANGED merge_vars
    /\ UNCHANGED app_vars

\* _run_single_check ends and its outcome is stored in the future
FinishTask(c) ==
    /\ c \in running
    /\ \E ev \in (IF c \in ConfigKeys THEN ReviewerEvents(c) ELSE {NoEvent}) :
          /\ event' = [event EXCEPT ![c] = ev]
          /\ future' = [future EXCEPT ![c] = RunSingleCheck(c, ev)]
    /\ running' = running \ {c}
    /\ UNCHANGED <<check_items, key_order, pc, submitted, queue, yield_order,
                   results, exc, late>>
    /\ UNCHANGED merge_vars
    /\ UNCHANGED app_vars

Next ==
    \/ Submit
    \/ AsCompleted
    \/ \E c \in AllKeys : Collect(c)
    \/ Deadline
    \/ Return
    \/ Propagate
    \/ StartTask
    \/ \E c \in AllKeys : FinishTask(c)

Spec == Init /\ [][Next]_vars

\* ------------------------------------------------------------------------
\* report_generator: _parse_json_result
\* ------------------------------------------------------------------------

JArray == [jt |-> "array", val |-> [items |-> <<>>]]

JNull == [jt |-> "null", val |-> [items |-> <<>>]]

JString == [jt |-> "string", val |-> [items |-> <<>>]]

RECURSIVE Chars(_)
\* the text as the regular expression sees it: a fence marker inside a JSON
\* string is a fence marker like any other
Chars(text) ==
    IF text = <<>> THEN <<>>
    ELSE (IF Head(text).k = "jsonf" THEN <<Part, Fence, Part>> ELSE <<Head(text)>>)
         \o Chars(Tail(text))

FencePositions(text) == {i \in 1..Len(text) : text[i].k = "fence"}

Min(S) == CHOOSE x \in S : \A y \in S : x <= y

Max(S) == CHOOSE x \in S : \A y \in S : x >= y

\* str.strip(): drop the whitespace at both ends
Strip(text) ==
    LET solid == {i \in 1..Len(text) : text[i].k # "ws"}
    IN  IF solid = {} THEN <<>> ELSE SubSeq(text, Min(solid), Max(solid))

\* re.search(r"```(?:json)?\s*([\s\S]*?)\s*```", text): the leftmost opening
\* fence that has a closing fence, the optional tag, whitespace, then the
\* shortest group that is followed by whitespace and the next fence
FenceSearch(text) ==
    LET chars == Chars(text)
        fences == FencePositions(chars)
    IN  IF Cardinality(fences) < 2
        THEN [matched |-> FALSE, group |-> <<>>]
        ELSE LET open == Min(fences)
                 close == Min(fences \ {open})
                 afterTag == IF chars[open + 1].k = "tag" THEN open + 2 ELSE open + 1
                 solid == {i \in afterTag..(close - 1) : chars[i].k # "ws"}
             IN  [matched |-> TRUE,
                  group |-> IF solid = {} THEN <<>>
                            ELSE SubSeq(chars, Min(solid), Max(solid))]

\* a decoder that answers an empty object where json.loads raises
JsonLoadsLenient(json_str) ==
    LET body == Strip(json_str)
    IN  IF Len(body) = 1 /\ body[1].k \in {"json", "jsonf"}
        THEN [ok |-> TRUE, value |-> body[1].v]
        ELSE [ok |-> TRUE, value |-> [jt |-> "object", val |-> <<>>]]

\* json.loads(json_str): a value when the string is one JSON value with
\* optional whitespace around it, JSONDecodeError otherwise
JsonLoads(json_str) ==
    LET body == Strip(json_str)
    IN  IF Len(body) = 1 /\ body[1].k \in {"json", "jsonf"}
        THEN [ok |-> TRUE, value |-> body[1].v]
        ELSE [ok |-> FALSE, value |-> JNull]

\* _parse_json_result: None (is_none) or the parsed value
parse_json_result(result_text) ==
    LET m == FenceSearch(result_text)
        json_str == IF m.matched THEN m.group ELSE Strip(result_text)
        loaded == JsonLoads(json_str)
    IN  IF loaded.ok /\ loaded.value.jt # "null"
        THEN [is_none |-> FALSE, value |-> loaded.value]
        ELSE [is_none |-> TRUE, value |-> JNull]

\* ------------------------------------------------------------------------
\* report_generator: _parse_single_result
\* ------------------------------------------------------------------------

Issue(number, severity, content, basis, location, action) ==
    [number |-> number, severity |-> severity, content |-> content,
     basis |-> basis, location |-> location, action |-> action]

CheckSection(title, category, issues, visual_checks, has_target, error) ==
    [title |-> title, category |-> category, issues |-> issues,
     visual_checks |-> visual_checks, has_target |-> has_target, error |-> error]

\* d.get(key, default) on a JSON object
Get(d, key, default) == IF key \in DOMAIN d THEN d[key] ELSE default

\* the error of a section whose text holds no JSON (the preview of the text
\* that follows the prefix is not modelled)
ParseErrorMessage == "JSON parse error: <first 200 characters>..."

\* one pass of the loop over enumerate(parsed.get("issues", []), 1)
\* issue numbers counted from 0
BuildIssueZeroBased(i, issue_data) ==
    LET d == issue_data.val
    IN  Issue(Get(d, "number", i - 1), Get(d, "severity", "Info"), Get(d, "content", ""),
              Get(d, "basis", ""), Get(d, "location", ""), Get(d, "action", ""))

BuildIssue(i, issue_data) ==
    LET d == issue_data.val
    IN  Issue(Get(d, "number", i), Get(d, "severity", "Info"), Get(d, "content", ""),
              Get(d, "basis", ""), Get(d, "location", ""), Get(d, "action", ""))

\* the section of a call that raised (placeholder)
NoSection == CheckSection("", "", <<>>, <<>>, FALSE, None)

\* the section of an outcome that failed
FailedSectionDefaultTarget(check_result) ==
    CheckSection(check_result.name, check_result.category,
                 <<>>, <<>>, TRUE, check_result.error)

FailedSection(check_result) ==
    CheckSection(check_result.name, check_result.category,
                 <<>>, <<>>, FALSE, check_result.error)

\* the section of a successful outcome whose text gave no JSON
ParseFailureSection(check_result) ==
    CheckSection(check_result.name, check_result.category,
                 <<>>, <<>>, TRUE, Some(ParseErrorMessage))

\* _parse_single_result: the section, or raised when .get is called on a
\* value that is not an object (AttributeError)
parse_single_result(check_result) ==
    IF ~check_result.success
    THEN [raised |-> FALSE, section |-> FailedSection(check_result)]
    ELSE LET parsed == parse_json_result(check_result.result_text)
         IN  IF parsed.is_none
             THEN [raised |-> FALSE, section |-> ParseFailureSection(check_result)]
             ELSE IF parsed.value.jt # "object"
             THEN [raised |-> TRUE, section |-> NoSection]
             ELSE LET obj == parsed.value.val
                      entries == Get(obj, "issues", <<>>)
                  IN  IF \E i \in 1..Len(entries) : entries[i].jt # "object"
                      THEN [raised |-> TRUE, section |-> NoSection]
                      ELSE [raised |-> FALSE,
                            section |->
                              CheckSection(check_result.name, check_result.category,
                                           [i \in 1..Len(entries) |-> BuildIssue(i, entries[i])],
                                           Get(obj, "visual_checks", <<>>),
                                           Get(obj, "has_target", TRUE),
                                           None)]

\* ------------------------------------------------------------------------
\* report_generator: merge_results
\* ------------------------------------------------------------------------

Severities == {"Fail", "Warning", "Info"}

RECURSIVE Tally(_, _)
\* for issue in section.issues: if sev in summary: summary[sev] += 1
Tally(summary, issues) ==
    IF issues = <<>> THEN summary
    ELSE LET sev == Head(issues).severity
         IN  Tally(IF sev \in DOMAIN summary
                   THEN [summary EXCEPT ![sev] = @ + 1]
                   ELSE summary,
                   Tail(issues))

RECURSIVE MergeLoop(_, _)
\* the loop over sorted_results, from the accumulated report acc
MergeLoop(acc, rest) ==
    IF rest = <<>> \/ acc.raised THEN acc
    ELSE LET one == parse_single_result(Head(rest))
         IN  IF one.raised
             THEN [acc EXCEPT !.raised = TRUE]
             ELSE MergeLoop([acc EXCEPT
                                !.sections = Append(@, one.section),
                                !.visual_checks = @ \o one.section.visual_checks,
                                !.summary = Tally(@, one.section.issues)],
                            Tail(rest))

\* the loop run over the list as given
merge_results_unsorted(rs) ==
    MergeLoop([NoReport EXCEPT !.raw_results = rs], rs)

merge_results(rs) ==
    MergeLoop([NoReport EXCEPT !.raw_results = rs], SortByCategory(rs))

\* ------------------------------------------------------------------------
\* report_generator: generate_markdown_report
\* ------------------------------------------------------------------------

Line(k, v) == [k |-> k, v |-> v]

\* "if section.error:" and "if parsed_report.visual_checks:" test truthiness:
\* None and the empty string are false
Truthy(opt) == opt # None /\ opt # Some("")

\* the lines of one section after its heading
SectionBlock(section) ==
    IF Truthy(section.error)
    THEN <<Line("error", section.error)>>
    ELSE IF ~section.has_target
    THEN <<Line("not applicable", None)>>
    ELSE IF section.issues = <<>>
    THEN <<Line("no issues", None)>>
    ELSE <<Line("table head", None)>>
         \o [i \in 1..Len(section.issues) |-> Line("row", section.issues[i])]

\* the document: the header with the clock value and the file name, the
\* summary row, one block per section, the checklist
generate_markdown_report(parsed_report, input_filename, now) ==
    [header |-> <<Line("datetime", now), Line("input", input_filename)>>,
     summary |-> Line("summary", <<parsed_report.summary["Fail"],
                                   parsed_report.summary["Warning"],
                                   parsed_report.summary["Info"]>>),
     blocks |-> [i \in 1..Len(parsed_report.sections) |->
                   <<Line("heading", parsed_report.sections[i].title)>>
                   \o SectionBlock(parsed_report.sections[i])],
     checklist |-> [i \in 1..Len(parsed_report.visual_checks) |->
                      Line("check", parsed_report.visual_checks[i])]]

NoDocument == [header |-> <<>>, summary |-> Line("summary", <<0, 0, 0>>),
               blocks |-> <<>>, checklist |-> <<>>]

\* the file names and the values of datetime.now() of the model
Filenames == {"flyer.png"}

ClockValues == {"2026-01-01 10:00:00", "2026-01-01 10:00:01"}

\* ------------------------------------------------------------------------
\* Outcome lists given to merge_results
\* ------------------------------------------------------------------------

\* longest outcome list
MaxOutcomes == 3

IssueFull ==
    JObject([number |-> 7, severity |-> "Fail", content |-> "deformed image",
             basis |-> "reference 2", location |-> "centre", action |-> "fix"])

IssueWarning == JObject([severity |-> "Warning", content |-> "check spacing"])

IssueBare == JObject([content |-> "no severity given"])

IssueLowerCase == JObject([number |-> 2, severity |-> "fail"])

IssueInfo == JObject([severity |-> "Info"])

IssueCritical == JObject([severity |-> "Critical", action |-> "fix"])

ObjectTwoIssues ==
    JObject([issues |-> <<IssueFull, IssueWarning>>, visual_checks |-> <<"v1">>,
             has_target |-> TRUE])

ObjectDefaults == JObject([issues |-> <<IssueBare, IssueLowerCase>>])

ObjectNoTargetWithIssues ==
    JObject([issues |-> <<IssueInfo, IssueFull>>, visual_checks |-> <<"v2">>,
             has_target |-> FALSE])

ObjectNoIssues == JObject([issues |-> <<>>, has_target |-> TRUE])

ObjectNoTarget == JObject([has_target |-> FALSE])

ObjectBadEntry == JObject([issues |-> <<IssueInfo, JString>>])

ObjectOtherSeverity ==
    JObject([issues |-> <<IssueCritical, IssueBare>>, visual_checks |-> <<"v3">>])

\* an object one of whose strings holds a fence marker
ObjectFenceInString ==
    JObject([issues |-> <<IssueWarning>>, visual_checks |-> <<"v4">>])

SampleResults ==
    { SingleCheckSuccess("atm", <<Json(ObjectTwoIssues)>>),
      SingleCheckSuccess("atm", <<Fence, Tag, Ws, Json(ObjectNoTargetWithIssues), Ws, Fence>>),
      SingleCheckSuccess("atm", <<Json(JArray)>>),
      SingleCheckSuccess("atm", EmptyText),
      SingleCheckSuccess("logo", <<Fence, Json(ObjectDefaults), Fence>>),
      SingleCheckSuccess("logo", <<Json(ObjectBadEntry)>>),
      SingleCheckFailure("logo", TimeoutMessage),
      SingleCheckSuccess("wording", <<Prose>>),
      SingleCheckSuccess("wording",
          <<Prose, Ws, Fence, Tag, Ws, Json(ObjectTwoIssues), Ws, Fence, Ws, Prose>>),
      SingleCheckSuccess("wording", <<Json(JNull)>>),
      SingleCheckSuccess("format", <<Json(ObjectNoIssues)>>),
      SingleCheckSuccess("format", <<Prose, Ws, Json(ObjectTwoIssues)>>),
      SingleCheckFailure("format", EmptyMessage),
      CheckResult("banner", "banner check", <<Ws, Json(ObjectNoTarget), Ws>>, TRUE, None),
      SingleCheckSuccess("format", <<Json(ObjectOtherSeverity)>>),
      CheckResult("wording", ConfigName("wording"), <<Json(ObjectTwoIssues)>>, FALSE,
                  Some(ApiErrorMessage)) }

MergeInputs ==
    UNION {[1..n -> SampleResults] : n \in 0..MaxOutcomes}

InitMerge ==
    /\ check_items = [k \in AllKeys |-> FALSE]
    /\ key_order = CHOOSE o \in KeyOrders : TRUE
    /\ pc = "not called"
    /\ DispatchIdle
    /\ mpc = "start"
    /\ check_results \in MergeInputs
    /\ report = NoReport
    /\ rendered = NoDocument
    /\ AppIdle

\* report = merge_results(check_results)
Merge ==
    /\ mpc = "start"
    /\ report' = merge_results(check_results)
    /\ mpc' = IF report'.raised THEN "raised" ELSE "merged"
    /\ UNCHANGED <<check_results, rendered>>
    /\ UNCHANGED dispatch_vars
    /\ UNCHANGED app_vars

\* generate_markdown_report(report, input_filename) at some clock value
Render ==
    /\ mpc = "merged"
    /\ \E f \in Filenames, t \in ClockValues :
          rendered' = generate_markdown_report(report, f, t)
    /\ mpc' = "rendered"
    /\ UNCHANGED <<check_results, report>>
    /\ UNCHANGED dispatch_vars
    /\ UNCHANGED app_vars

NextMerge == Merge \/ Render

SpecMerge == InitMerge /\ [][NextMerge]_vars

\* ------------------------------------------------------------------------
\* Response texts given to merge_results in a successful outcome
\* ------------------------------------------------------------------------

\* longest response text, in tokens
MaxTextLen == 5

Alphabet ==
    {Prose, Fence, Tag, Ws, Json(ObjectTwoIssues), JsonWithFence(ObjectFenceInString)}

Texts == UNION {[1..n -> Alphabet] : n \in 0..MaxTextLen}

InitText ==
    /\ check_items = [k \in AllKeys |-> FALSE]
    /\ key_order = CHOOSE o \in KeyOrders : TRUE
    /\ pc = "not called"
    /\ DispatchIdle
    /\ mpc = "start"
    /\ \E t \in Texts : check_results = <<SingleCheckSuccess("atm", t)>>
    /\ report = NoReport
    /\ rendered = NoDocument
    /\ AppIdle

SpecText == InitText /\ [][NextMerge]_vars

\* ------------------------------------------------------------------------
\* app: the handler of the run button, and api_client.configure_api
\* ------------------------------------------------------------------------

ConfigErrorMessage == "GEMINI_API_KEY is not set"

\* what os.getenv can answer: nothing, an empty value, a key
EnvValues == {None, Some(""), Some("env-key")}

\* the secrets store: not available (reading it raises), or holding nothing
\* or a key under GEMINI_API_KEY
SecretsUnavailable == [available |-> FALSE, value |-> None]

SecretsWith(v) == [available |-> TRUE, value |-> v]

SecretsValues == {SecretsUnavailable, SecretsWith(None), SecretsWith(Some("secret-key"))}

\* a configure_api that hands over whatever key it found
configure_api_unchecked(env, sec) ==
    LET key == IF ~Truthy(env) /\ sec.available THEN sec.value ELSE env
    IN  [raised |-> FALSE, msg |-> "", key |-> key]

\* configure_api(): the environment first, then the secrets store (an
\* exception while reading it is swallowed), ValueError when no key is found
configure_api(env, sec) ==
    LET key == IF ~Truthy(env) /\ sec.available THEN sec.value ELSE env
    IN  IF ~Truthy(key)
        THEN [raised |-> TRUE, msg |-> ConfigErrorMessage, key |-> None]
        ELSE [raised |-> FALSE, msg |-> "", key |-> key]

Notice(kind, msg) == [kind |-> kind, msg |-> msg]

\* the four checkboxes of the page
AppCheckItems == {f \in [AllKeys -> BOOLEAN] : \A k \in ExtraKeys : ~f[k]}

InitApp ==
    /\ check_items \in AppCheckItems
    /\ key_order = category_order \o [i \in 1..NumExtraKeys |-> ExtraKeyNames[i]]
    /\ pc = "not called"
    /\ DispatchIdle
    /\ MergeIdle
    /\ app_pc = "clicked"
    /\ env_key \in EnvValues
    /\ secrets \in SecretsValues
    /\ genai_api_key = None
    /\ ui = <<>>

\* try: configure_api() except ValueError as e: st.error(...); st.stop()
ConfigureApi ==
    /\ app_pc = "clicked"
    /\ LET c == configure_api(env_key, secrets)
       IN  IF c.raised
           THEN /\ ui' = Append(ui, Notice("config error", c.msg))
                /\ app_pc' = "stopped"
                /\ UNCHANGED genai_api_key
           ELSE /\ genai_api_key' = c.key
                /\ app_pc' = "configured"
                /\ UNCHANGED ui
    /\ UNCHANGED <<env_key, secrets>>
    /\ UNCHANGED dispatch_vars
    /\ UNCHANGED merge_vars

\* if active_checks == 0: st.warning(...); st.stop()
NoChecksStop ==
    /\ app_pc = "configured"
    /\ active_categories = <<>>
    /\ ui' = Append(ui, Notice("warning", "no check selected"))
    /\ app_pc' = "stopped"
    /\ UNCHANGED <<env_key, secrets, genai_api_key>>
    /\ UNCHANGED dispatch_vars
    /\ UNCHANGED merge_vars

\* st.info(...) in the progress container
RunningNotice == Notice("info", "running")

\* the progress message, then the call of run_proofread_parallel
CallDispatch ==
    /\ app_pc = "configured"
    /\ active_categories # <<>>
    /\ pc = "not called"
    /\ pc' = "start"
    /\ app_pc' = "dispatching"
    /\ ui' = Append(ui, RunningNotice)
    /\ UNCHANGED <<check_items, key_order, submitted, queue, running, event, future,
                   yield_order, results, exc, late>>
    /\ UNCHANGED <<env_key, secrets, genai_api_key>>
    /\ UNCHANGED merge_vars

\* except Exception as e: st.error(...); st.stop()
DispatchFailed ==
    /\ app_pc = "dispatching"
    /\ pc = "raised"
    /\ ui' = Append(ui, Notice("api error", exc))
    /\ app_pc' = "stopped"
    /\ UNCHANGED <<env_key, secrets, genai_api_key>>
    /\ UNCHANGED dispatch_vars
    /\ UNCHANGED merge_vars

\* progress_container.empty() adds an empty placeholder to the container and
\* leaves the progress message on the page; then
\* report = merge_results(check_results) on the list the dispatcher returned
MergeReturned ==
    /\ app_pc = "dispatching"
    /\ pc = "returned"
    /\ check_results' = results
    /\ report' = merge_results(results)
    /\ mpc' = IF report'.raised THEN "raised" ELSE "merged"
    /\ app_pc' = "shown"
    /\ UNCHANGED rendered
    /\ UNCHANGED <<env_key, secrets, genai_api_key, ui>>
    /\ UNCHANGED dispatch_vars

NextApp ==
    \/ ConfigureApi
    \/ NoChecksStop
    \/ CallDispatch
    \/ DispatchFailed
    \/ MergeReturned
    \/ Render
    \/ Next

SpecApp == InitApp /\ [][NextApp]_vars

\* ------------------------------------------------------------------------
\* Properties of the dispatcher
\* ------------------------------------------------------------------------

Terminated == pc \in {"returned", "raised"}

EnabledKeys == {k \in AllKeys : check_items[k]}

ResultsOf(c) == {i \in 1..Len(results) : results[i].category = c}

IsTimeoutFailure(r) ==
    /\ ~r.success
    /\ r.result_text = EmptyText
    /\ r.error = Some(TimeoutMessage)

\* C1: for every subset S of the four configured categories and every
\* combination of reviewer outcomes (success, exception, still running at the
\* deadline), the call ends by returning a list with exactly one CheckResult
\* for each category of S and none for any other category.
C1_ExactlyOnePerCategory ==
    (Terminated /\ EnabledKeys \subseteq ConfigKeys) =>
        /\ pc = "returned"
        /\ \A c \in EnabledKeys : Cardinality(ResultsOf(c)) = 1
        /\ \A i \in 1..Len(results) : results[i].category \in EnabledKeys

\* C2: a category whose task was unfinished when the overall deadline passed
\* is in the returned list as a failed CheckResult with the timeout message;
\* the call returns instead of raising.
C2_TimeoutYieldsFailedOutcome ==
    (Terminated /\ late # {} /\ EnabledKeys \subseteq ConfigKeys) =>
        /\ pc = "returned"
        /\ \A c \in late : \E i \in ResultsOf(c) : IsTimeoutFailure(results[i])

\* C3: fault isolation. Every CheckResult in the list is decided by what its
\* own reviewer met: an exception gives success=false with that exception's
\* message, a response gives success=true with that text, whatever the other
\* reviewers met; at return every enabled category has its one result; and
\* an exception met by a reviewer never makes the call raise.
C3_FaultIsolation ==
    /\ \A i \in 1..Len(results) :
          LET r == results[i]
              ev == event[r.category]
          IN  /\ ev.kind # "none"
              /\ ev.kind = "exception" =>
                    ~r.success /\ r.error = Some(ev.msg) /\ r.result_text = EmptyText
              /\ ev.kind = "response" =>
                    r.success /\ r.error = None /\ r.result_text = ev.text
    /\ pc = "returned" =>
          \A c \in EnabledKeys : Cardinality(ResultsOf(c)) = 1
    /\ pc \in {"unwinding", "raised"} =>
          \/ exc = "TimeoutError"
          \/ exc = "KeyError" /\ ~(EnabledKeys \subseteq ConfigKeys)

\* a returned list in which one category failed on a missing reference file
\* and another category succeeded
C3_Witness ==
    /\ pc = "returned"
    /\ \E c, d \in EnabledKeys :
          /\ event[c] = Exception(MissingFileMessage)
          /\ event[d].kind = "response"
          /\ \E i \in ResultsOf(c) : ~results[i].success
          /\ \E j \in ResultsOf(d) : results[j].success

\* C4: the call never ends by raising, whatever the keys of check_items and
\* whatever the reviewers meet.
C4_NeverRaises == pc # "raised"

\* C5: the returned list is in canonical category order atm < logo < wording
\* < format, whatever the order in which the futures completed.
C5_CanonicalOrder ==
    pc = "returned" =>
        \A i, j \in 1..Len(results) :
            i < j => SortKey(results[i].category) < SortKey(results[j].category)

\* all four categories returned although they completed in reverse order
C5_Witness ==
    /\ pc = "returned"
    /\ yield_order = <<"format", "wording", "logo", "atm">>
    /\ Len(results) = 4

\* C6: once the deadline has passed the call leaves without waiting for the
\* model calls still running, and no result of a late task is ever recorded
\* as a success.
C6_ReturnsWithoutWaiting ==
    /\ (pc = "unwinding" /\ exc = "TimeoutError" /\ EnabledKeys \subseteq ConfigKeys) =>
          ENABLED Propagate
    /\ \A c \in late : \A i \in ResultsOf(c) : ~results[i].success

\* C7: the categories submitted are exactly the keys whose value is true; no
\* task and no result exists for a key whose value is false; with no key
\* enabled the call returns the empty list.
C7_ExactlyEnabledDispatched ==
    /\ submitted \subseteq EnabledKeys
    /\ pc # "start" => submitted = EnabledKeys
    /\ \A c \in AllKeys :
          (c \in running \/ c \in SeqToSet(queue) \/ Done(c)) => check_items[c]
    /\ \A i \in 1..Len(results) : check_items[results[i].category]
    /\ (EnabledKeys = {} /\ pc \notin {"start", "collecting"}) =>
          pc = "returned" /\ results = <<>>

\* a returned list of a call with enabled and disabled configured categories
C7_Witness ==
    /\ pc = "returned"
    /\ results # <<>>
    /\ \E c \in ConfigKeys : ~check_items[c]

\* C8: at most 4 invocations of _run_single_check are in flight at any time.
C8_AtMostFourInFlight == Cardinality(running) <= 4

\* four reviewers in flight while a fifth enabled category waits in the queue
C8_Witness ==
    /\ Cardinality(running) = 4
    /\ queue # <<>>

CheckResultInvariant(r) ==
    /\ r.success => r.error = None
    /\ ~r.success => r.result_text = EmptyText /\ r.error # None

\* C9: every CheckResult produced by _run_single_check (the value of a
\* future) or appended by the collection loop has success => error is None
\* and not success => result_text empty and error set.
C9_CheckResultInvariant ==
    /\ \A i \in 1..Len(results) : CheckResultInvariant(results[i])
    /\ \A c \in AllKeys :
          future[c].kind = "returned" => CheckResultInvariant(future[c].value)
    /\ \A c \in ConfigKeys : \A e \in {"TimeoutError", "RuntimeError"} :
          LET step == CollectBody(c, Raised(e, ApiErrorMessage))
          IN  \A i \in 1..Len(step.append) : CheckResultInvariant(step.append[i])

\* a returned list holding a successful and a failed CheckResult
C9_Witness ==
    /\ pc = "returned"
    /\ \E i, j \in 1..Len(results) : results[i].success /\ ~results[j].success

\* ------------------------------------------------------------------------
\* Properties of the merger
\* ------------------------------------------------------------------------

SectionCount(section, sev) ==
    Cardinality({i \in 1..Len(section.issues) : section.issues[i].severity = sev})

CountedSection(section) == section.error = None /\ section.has_target

RECURSIVE SumOver(_, _, _)
\* the number of issues of severity sev in the sections; with counted_only,
\* in the sections that have no error and has_target=true
SumOver(sections, sev, counted_only) ==
    IF sections = <<>> THEN 0
    ELSE (IF counted_only /\ ~CountedSection(Head(sections))
          THEN 0
          ELSE SectionCount(Head(sections), sev))
         + SumOver(Tail(sections), sev, counted_only)

\* C10: summary[sev] is the number of issues of severity sev over all
\* sections, and the sections with an error or with has_target=false
\* contribute nothing to it (also when has_target=false comes with issues).
C10_SummaryCounts ==
    mpc = "merged" =>
        \A sev \in Severities :
            /\ report.summary[sev] = SumOver(report.sections, sev, FALSE)
            /\ report.summary[sev] = SumOver(report.sections, sev, TRUE)

\* the outcomes in the order in which merge_results takes them
Sorted == SortByCategory(check_results)

Merged == mpc \in {"merged", "rendered"}

\* C11: every issue of every section has severity Fail, Warning or Info.
C11_SeverityClosedSet ==
    Merged =>
        \A i \in 1..Len(report.sections) :
            \A j \in 1..Len(report.sections[i].issues) :
                report.sections[i].issues[j].severity \in Severities

HoldsNoJson(text) == \A i \in 1..Len(text) : text[i].k \notin {"json", "jsonf"}

\* the kind of block the document shows for section i
BlockKind(i) == rendered.blocks[i][2].k

\* C12: a successful outcome whose text holds no JSON value gives a section
\* with a non-empty error and no issues, and the document shows it as an
\* error block.
C12_UnparsableIsError ==
    \A i \in 1..Len(check_results) :
        (mpc # "start" /\ Sorted[i].success /\ HoldsNoJson(Sorted[i].result_text)) =>
            /\ Merged
            /\ report.sections[i].error \notin {None, Some("")}
            /\ report.sections[i].issues = <<>>
            /\ mpc = "rendered" => BlockKind(i) = "error"

\* prose with no JSON in it, rendered
C12_Witness ==
    /\ mpc = "rendered"
    /\ check_results = <<SingleCheckSuccess("atm", <<Prose, Ws, Prose>>)>>
    /\ BlockKind(1) = "error"

IsObjectToken(tok) ==
    /\ tok.k = "json"
    /\ tok.v.jt = "object"

\* one JSON object (no fence marker in its strings) and around it prose and
\* whitespace only
ProseWrapped(text) ==
    \E j \in 1..Len(text) :
        /\ IsObjectToken(text[j])
        /\ \A i \in 1..Len(text) : i # j => text[i].k \in {"prose", "ws"}

\* prose, an opening fence, the optional tag, one JSON object (no fence
\* marker in its strings) with whitespace around it, the closing fence, prose
FenceWrapped(text) ==
    \E o, j, c \in 1..Len(text) :
        /\ o < j /\ j < c
        /\ text[o].k = "fence" /\ text[c].k = "fence"
        /\ IsObjectToken(text[j])
        /\ \A i \in 1..Len(text) :
              \/ i \in {o, j, c}
              \/ (i < o \/ i > c) /\ text[i].k \in {"prose", "ws"}
              \/ (o < i /\ i < c) /\ (text[i].k = "ws" \/ (i = o + 1 /\ text[i].k = "tag"))

TheObject(text) == (CHOOSE j \in 1..Len(text) : IsObjectToken(text[j]))

CarriesObject(section, text) ==
    /\ section.error = None
    /\ Len(section.issues) = Len(text[TheObject(text)].v.val.issues)
    /\ section.issues # <<>>

\* C13: one JSON object wrapped in prose, fenced or not, is found
\* and parsed: the section carries its issues and no error.
C13_ProseWrappedParsed ==
    \A i \in 1..Len(check_results) :
        LET text == Sorted[i].result_text
        IN  (Merged /\ Sorted[i].success /\ (ProseWrapped(text) \/ FenceWrapped(text))) =>
                CarriesObject(report.sections[i], text)

\* an opening fence, the optional tag, one JSON object with whitespace
\* around it, the closing fence
Fenced(text) ==
    /\ Len(text) >= 3
    /\ text[1].k = "fence" /\ text[Len(text)].k = "fence"
    /\ \E j \in 2..(Len(text) - 1) :
          /\ text[j].k \in {"json", "jsonf"}
          /\ text[j].v.jt = "object"
          /\ \A i \in 2..(Len(text) - 1) :
                i # j => (text[i].k = "ws" \/ (i = 2 /\ text[i].k = "tag"))

Unfenced(text) ==
    <<text[CHOOSE j \in 1..Len(text) : text[j].k \in {"json", "jsonf"}]>>

SameFindings(a, b) ==
    /\ a.raised = b.raised
    /\ Len(a.sections) = Len(b.sections)
    /\ \A i \in 1..Len(a.sections) :
          /\ a.sections[i].issues = b.sections[i].issues
          /\ a.sections[i].visual_checks = b.sections[i].visual_checks
          /\ a.sections[i].has_target = b.sections[i].has_target

\* C14: merge_results on a JSON object in code-fence markup gives the same
\* issues, visual checks and has_target as on the object alone.
C14_FenceTolerance ==
    (Merged /\ Len(check_results) = 1 /\ check_results[1].success
       /\ Fenced(check_results[1].result_text)) =>
        SameFindings(report,
                     merge_results(<<SingleCheckSuccess(check_results[1].category,
                                       Unfenced(check_results[1].result_text))>>))

Has(d, key) == key \in DOMAIN d

\* C15: the section of a parsed object has one issue per entry of the
\* object's issues array, in the array's order; a missing number is the
\* entry's 1-based position, a missing severity is Info, a missing content,
\* basis, location or action is the empty string.
C15_IssuesBuiltWithDefaults ==
    \A i \in 1..Len(check_results) :
        LET parsed == parse_json_result(Sorted[i].result_text)
        IN  (Merged /\ Sorted[i].success /\ ~parsed.is_none) =>
                LET entries == IF Has(parsed.value.val, "issues")
                               THEN parsed.value.val.issues ELSE <<>>
                    issues == report.sections[i].issues
                IN  /\ Len(issues) = Len(entries)
                    /\ \A j \in 1..Len(entries) :
                          LET d == entries[j].val
                          IN  /\ issues[j].number = IF Has(d, "number") THEN d.number ELSE j
                              /\ issues[j].severity = IF Has(d, "severity") THEN d.severity ELSE "Info"
                              /\ issues[j].content = IF Has(d, "content") THEN d.content ELSE ""
                              /\ issues[j].basis = IF Has(d, "basis") THEN d.basis ELSE ""
                              /\ issues[j].location = IF Has(d, "location") THEN d.location ELSE ""
                              /\ issues[j].action = IF Has(d, "action") THEN d.action ELSE ""

\* a second entry with nothing but its content: number 2, severity Info
C15_Witness ==
    /\ Merged
    /\ \E i \in 1..Len(check_results) :
          /\ Sorted[i] = SingleCheckSuccess("format", <<Json(ObjectOtherSeverity)>>)
          /\ Len(report.sections[i].issues) = 2
          /\ report.sections[i].issues[2] = Issue(2, "Info", "no severity given", "", "", "")

DistinctCategories(rs) ==
    \A i, j \in 1..Len(rs) : i # j => SortKey(rs[i].category) # SortKey(rs[j].category)

Permuted(rs, p) == [i \in 1..Len(rs) |-> rs[p[i]]]

RECURSIVE Concatenation(_)
Concatenation(sections) ==
    IF sections = <<>> THEN <<>>
    ELSE Head(sections).visual_checks \o Concatenation(Tail(sections))

\* C16: for a list with one outcome per category, the sections are in the
\* order atm, logo, wording, format, visual_checks is the concatenation of the
\* sections' visual checks in that order, and every permutation of the list
\* gives the same sections and visual_checks.
C16_OrderIndependent ==
    (Merged /\ DistinctCategories(check_results)) =>
        /\ \A i, j \in 1..Len(report.sections) :
              i < j => SortKey(report.sections[i].category)
                         < SortKey(report.sections[j].category)
        /\ report.visual_checks = Concatenation(report.sections)
        /\ \A p \in Permutations(1..Len(check_results)) :
              LET other == merge_results(Permuted(check_results, p))
              IN  /\ other.sections = report.sections
                  /\ other.visual_checks = report.visual_checks

\* a list given in the reverse of the canonical order, each outcome with
\* visual checks
C16_Witness ==
    /\ Merged
    /\ Len(check_results) >= 2
    /\ DistinctCategories(check_results)
    /\ \A i \in 1..(Len(check_results) - 1) :
          SortKey(check_results[i].category) > SortKey(check_results[i + 1].category)
    /\ \A i \in 1..Len(report.sections) : report.sections[i].visual_checks # <<>>

\* C17: in the rendered report the block of every failed outcome is the
\* error block.
C17_FailedRenderedAsError ==
    mpc = "rendered" =>
        \A i \in 1..Len(check_results) :
            ~Sorted[i].success => BlockKind(i) = "error"

\* C18: a section with an error has no issues, and the section of a failed
\* outcome has the outcome's error, no issues, no visual checks and
\* has_target false, whatever the outcome's text holds.
C18_ErrorExcludesIssues ==
    Merged =>
        \A i \in 1..Len(report.sections) :
            /\ report.sections[i].error # None => report.sections[i].issues = <<>>
            /\ ~Sorted[i].success =>
                  /\ report.sections[i].error = Sorted[i].error
                  /\ report.sections[i].issues = <<>>
                  /\ report.sections[i].visual_checks = <<>>
                  /\ ~report.sections[i].has_target

\* a failed outcome whose text is a JSON object with issues
C18_Witness ==
    /\ Merged
    /\ \E i \in 1..Len(check_results) :
          /\ ~Sorted[i].success
          /\ ~parse_json_result(Sorted[i].result_text).is_none
          /\ report.sections[i].error = Some(ApiErrorMessage)
          /\ report.sections[i].issues = <<>>

\* nothing the handler can read is a key
NoCredential ==
    /\ env_key \in {None, Some("")}
    /\ ~secrets.available \/ secrets.value \in {None, Some("")}

CarriesConfigError(rs) ==
    \E i \in 1..Len(rs) : rs[i].error = Some(ConfigErrorMessage)

\* C20: with no credential the run stops with the configuration error shown
\* once and nothing dispatched; run_proofread_parallel is called only with a
\* key configured; no outcome carries the configuration error.
C20_ConfigBeforeDispatch ==
    /\ NoCredential =>
          /\ pc = "not called"
          /\ submitted = {} /\ queue = <<>> /\ running = {} /\ results = <<>>
          /\ app_pc \in {"clicked", "stopped"}
          /\ app_pc = "stopped" => ui = <<Notice("config error", ConfigErrorMessage)>>
    /\ pc # "not called" => genai_api_key \notin {None, Some("")}
    /\ ~CarriesConfigError(results) /\ ~CarriesConfigError(check_results)

\* no key anywhere, checks selected, the run stopped at the configuration
C20_Witness ==
    /\ NoCredential
    /\ EnabledKeys # {}
    /\ app_pc = "stopped"
    /\ Len(ui) = 1
    /\ pc = "not called"

\* C21: merge_results returns for every list of outcomes, with one section
\* per outcome, also when a successful outcome's text is JSON that is not an
\* object or whose issues entries are not objects.
C21_MergeIsTotal ==
    mpc # "start" =>
        /\ mpc # "raised"
        /\ ~report.raised
        /\ Len(report.sections) = Len(check_results)

====
